---- MODULE Spec2Model ----
(***************************************************************************)
(* Model of the tinychain consensus core:                                  *)
(*   - core/nakamoto/blockdag.go : the SQL-backed block DAG and the        *)
(*     ingestion pipeline (IngestHeader, IngestBlockBody, IngestBlock,     *)
(*     tip selection, chain queries), also with two concurrent callers;    *)
(*   - the account state machine (Transition / Apply) and RebuildState.    *)
(*                                                                         *)
(* Widths are scaled down: a byte is a digit in 0..ByteBase-1 and a        *)
(* [32]byte array is Bytes32Len digits, so a "u256" ranges over            *)
(* 0..U256Max; a uint64 ranges over 0..U64Max.  All byte conversions are   *)
(* modelled digit by digit, as the code performs them.                     *)
(***************************************************************************)
EXTENDS Integers, Sequences, FiniteSets, TLC

\* ------------------------------------------------------------------------
\* Bounds of the exploration.
\* ------------------------------------------------------------------------
MaxBlocks == 3
MaxEpochs == 2
MaxTimestamp == 2
MaxNonce == 2

\* ------------------------------------------------------------------------
\* Scaled widths of the program's fixed-size types.
\* ------------------------------------------------------------------------
ByteBase == 2
Bytes32Len == 3
U64Bits == 4

U256Max == ByteBase ^ Bytes32Len - 1
HashSpace == U256Max + 1
U64Max == 2 ^ U64Bits - 1

NULL == [nil |-> TRUE]
NoError == "nil"
Panic == "panic"

Min(S) == CHOOSE x \in S : \A y \in S : x <= y
Max(S) == CHOOSE x \in S : \A y \in S : y <= x

\* ------------------------------------------------------------------------
\* Byte conversions.
\* ------------------------------------------------------------------------
RECURSIVE BigIntBytes(_)
\* big.Int.Bytes(): minimal big-endian encoding, the empty slice for 0.
BigIntBytes(n) ==
    IF n = 0 THEN <<>> ELSE Append(BigIntBytes(n \div ByteBase), n % ByteBase)

RECURSIVE SetBytes(_)
\* big.Int.SetBytes(): big-endian bytes of any length to an integer.
SetBytes(b) ==
    IF Len(b) = 0 THEN 0
    ELSE SetBytes(SubSeq(b, 1, Len(b) - 1)) * ByteBase + b[Len(b)]

\* copy(dst[:], src) into a zeroed [32]byte: the first min(32, len) bytes of
\* src land at the START of dst.
CopyToBytes32(src) ==
    [i \in 1 .. Bytes32Len |-> IF i <= Len(src) THEN src[i] ELSE 0]

FitsBytes32(n) == n <= U256Max

\* BigIntToBytes32: FillBytes into 32 bytes, right-aligned (it panics when
\* the value does not fit; callers test FitsBytes32 first).
BigIntToBytes32(n) ==
    [i \in 1 .. Bytes32Len |-> (n \div (ByteBase ^ (Bytes32Len - i))) % ByteBase]

Bytes32ToBigInt(b) == SetBytes(b)

PadBytes(src, length) ==
    IF Len(src) >= length THEN src
    ELSE [i \in 1 .. (length - Len(src)) |-> 0] \o src

Bytes32Values == { BigIntToBytes32(n) : n \in 0 .. U256Max }

\* ------------------------------------------------------------------------
\* Transactions.
\* ------------------------------------------------------------------------
Keys == 1 .. 4

\* RawTransaction.Envelope(): every field but the signature.
Envelope(tx) ==
    <<tx.Version, tx.FromPubkey, tx.ToPubkey, tx.Amount, tx.Fee, tx.Nonce>>

\* RawTransaction.Hash(): double SHA-256 of the envelope, here a digest of
\* the envelope fields into the hash space.
TxHash(tx) ==
    LET e == Envelope(tx)
    IN  (e[1] + 3 * e[2] + 5 * e[3] + 7 * e[4] + 11 * e[5] + 13 * e[6]) % HashSpace

RawTransactionSizeBytes == 1 + 65 + 65 + 8 + 8 + 8

\* The wallet's signature of an envelope under a key, and its verification.
WalletSign(pubkey, envelope) ==
    (pubkey + envelope[3] + envelope[4] + envelope[5] + 1) % 4

VerifySignature(pubkey, sig, envelope) == sig = WalletSign(pubkey, envelope)

MakeTransferTx(from, to, amount, fee) ==
    LET unsigned == [Version |-> 1, Sig |-> 0, FromPubkey |-> from, ToPubkey |-> to,
                     Amount |-> amount, Fee |-> fee, Nonce |-> 0]
    IN  [unsigned EXCEPT !.Sig = WalletSign(from, Envelope(unsigned))]

RECURSIVE ComputeMerkleHash(_)
\* Merkle root of a list of envelopes; the root of the empty list is the
\* all-zero hash.
ComputeMerkleHash(txlist) ==
    IF Len(txlist) = 0 THEN 0
    ELSE LET e == txlist[Len(txlist)]
             leaf == (e[1] + 3 * e[2] + 5 * e[3] + 7 * e[4] + 11 * e[5] + 13 * e[6]) % HashSpace
         IN  (3 * ComputeMerkleHash(SubSeq(txlist, 1, Len(txlist) - 1)) + leaf + 1) % HashSpace

\* ------------------------------------------------------------------------
\* Blocks, proof of work, difficulty.
\* ------------------------------------------------------------------------
\* RawBlock.Hash(): a digest of the header fields (the body is excluded).
Hash(raw) ==
    (raw.ParentHash + 3 * SetBytes(raw.ParentTotalWork) + 5 * raw.Timestamp
       + 7 * raw.NumTransactions + 3 * raw.TransactionsMerkleRoot + raw.Nonce) % HashSpace

HeaderSizeBytes == 32 + 32 + 8 + 8 + 32 + 32 + 32

\* RawBlock.SizeBytes()
SizeBytes(raw) == HeaderSizeBytes + Len(raw.Transactions) * RawTransactionSizeBytes

VerifyPOW(blockHash, difficulty) == blockHash < difficulty

CalculateWork(hashInt) == HashSpace \div (hashInt + 1)

RecomputeDifficulty(epochStart, epochEnd, currDifficulty, targetEpochLengthMillis) ==
    LET actual == IF epochEnd > epochStart THEN epochEnd - epochStart ELSE 1
    IN  (currDifficulty * actual) \div targetEpochLengthMillis

consensus ==
    [EpochLengthBlocks |-> 2,
     TargetEpochLengthMillis |-> 2,
     GenesisDifficulty |-> 3,
     MaxBlockSizeBytes |-> HeaderSizeBytes + RawTransactionSizeBytes]

\* Epoch.GetId(): start height, "_", start block hash.
GetId(epoch) == <<epoch.StartHeight, epoch.StartBlockHash>>

GetRawGenesisBlockFromConfig ==
    [ParentHash |-> 0, ParentTotalWork |-> BigIntToBytes32(0), Timestamp |-> 0,
     NumTransactions |-> 0, TransactionsMerkleRoot |-> 0, Nonce |-> 2,
     Transactions |-> <<>>]

\* ------------------------------------------------------------------------
\* State.
\* ------------------------------------------------------------------------
VARIABLES
    blocks,                 \* table blocks, in rowid (insertion) order
    epochs,                 \* table epochs
    transactions,           \* table transactions
    transactions_blocks,    \* table transactions_blocks
    HeadersTip,             \* dag.HeadersTip
    FullTip,                \* dag.FullTip
    OnNewFullTip,           \* TRUE iff dag.OnNewFullTip is set
    last,                   \* the last call: operation, returned error, callback invocations
    state,                  \* StateMachine.state
    sm,                     \* the last state machine call and its result
    inflight                \* the IngestBlock calls running concurrently: position and locals

dagVars == <<blocks, epochs, transactions, transactions_blocks, HeadersTip, FullTip,
             OnNewFullTip, last>>
smVars == <<state, sm>>
vars == <<blocks, epochs, transactions, transactions_blocks, HeadersTip, FullTip,
          OnNewFullTip, last, state, sm, inflight>>

\* ------------------------------------------------------------------------
\* Store queries.
\* ------------------------------------------------------------------------
\* The Block struct scanned out of a blocks row.
BlockFromRow(row) ==
    [Hash |-> row.hash,
     ParentHash |-> row.parent_hash,
     Timestamp |-> row.timestamp,
     NumTransactions |-> row.num_transactions,
     TransactionsMerkleRoot |-> row.transactions_merkle_root,
     Nonce |-> row.nonce,
     Height |-> row.height,
     Epoch |-> row.epoch,
     SizeBytes |-> row.size_bytes,
     AccumulatedWork |-> Bytes32ToBigInt(CopyToBytes32(row.acc_work)),
     ParentTotalWork |-> Bytes32ToBigInt(CopyToBytes32(row.parent_total_work))]

BlockRows(bs) == { bs[i] : i \in 1 .. Len(bs) }

GetBlockByHash(bs, hash) ==
    IF \E r \in BlockRows(bs) : r.hash = hash
    THEN BlockFromRow(CHOOSE r \in BlockRows(bs) : r.hash = hash)
    ELSE NULL

HasBlock(bs, hash) == \E r \in BlockRows(bs) : r.hash = hash

\* The epoch of a stored block, as GetEpochForBlockHash reads it back: the
\* difficulty blob is copied to the start of a 32-byte array.
GetEpochForBlockHash(bs, es, blockhash) ==
    IF ~ \E r \in BlockRows(bs) : r.hash = blockhash THEN NULL
    ELSE LET id == (CHOOSE r \in BlockRows(bs) : r.hash = blockhash).epoch
         IN  IF ~ \E e \in es : e.id = id THEN NULL
             ELSE LET e == CHOOSE e \in es : e.id = id
                  IN  [Id |-> e.id,
                       StartBlockHash |-> e.start_block_hash,
                       StartTime |-> e.start_time,
                       StartHeight |-> e.start_height,
                       Difficulty |-> Bytes32ToBigInt(CopyToBytes32(e.difficulty))]

\* Blob comparison of the store (memcmp, then length).
BlobLess(a, b) ==
    \/ \E i \in 1 .. Len(a) :
          /\ i <= Len(b)
          /\ a[i] < b[i]
          /\ \A j \in 1 .. (i - 1) : a[j] = b[j]
    \/ /\ Len(a) < Len(b)
       /\ \A j \in 1 .. Len(a) : a[j] = b[j]

\* Mutant: the tip is the block inserted last.
GetLatestTip_LastInserted(bs) == GetBlockByHash(bs, bs[Len(bs)].hash)

\* select hash from blocks order by acc_work desc limit 1: the first row, in
\* rowid order, among those of greatest acc_work.
GetLatestTip(bs) ==
    LET best == { i \in 1 .. Len(bs) : \A j \in 1 .. Len(bs) : ~ BlobLess(bs[i].acc_work, bs[j].acc_work) }
    IN  GetBlockByHash(bs, bs[Min(best)].hash)

\* ------------------------------------------------------------------------
\* Ingestion.
\* ------------------------------------------------------------------------
\* The outcome of an ingestion call: the returned error (NoError for nil,
\* Panic when the call panics) and the store and tip it leaves.
Outcome(err, bs, es, txs, tbs, tip, calls) ==
    [err |-> err, blocks |-> bs, epochs |-> es, transactions |-> txs,
     transactions_blocks |-> tbs, FullTip |-> tip, calls |-> calls]

\* Step 6a of IngestBlock / IngestHeader: the epoch of the new block.  On an
\* epoch boundary the new epochs row is inserted with dag.db.Exec, outside
\* any transaction.
ComputeEpoch(raw, height) ==
    LET parentEpoch == GetEpochForBlockHash(blocks, epochs, raw.ParentHash)
    IN  IF height % consensus.EpochLengthBlocks = 0
        THEN IF parentEpoch = NULL
             THEN [err |-> "Epoch not found.", epoch |-> NULL, epochs |-> epochs]
             ELSE LET newDifficulty ==
                          RecomputeDifficulty(parentEpoch.StartTime, raw.Timestamp,
                                              parentEpoch.Difficulty,
                                              consensus.TargetEpochLengthMillis)
                      epoch == [Number |-> height \div consensus.EpochLengthBlocks,
                                StartBlockHash |-> Hash(raw),
                                StartTime |-> raw.Timestamp,
                                StartHeight |-> height,
                                Difficulty |-> newDifficulty]
                      row == [id |-> GetId(epoch),
                              start_block_hash |-> epoch.StartBlockHash,
                              start_time |-> epoch.StartTime,
                              start_height |-> epoch.StartHeight,
                              difficulty |-> BigIntBytes(newDifficulty)]
                  IN  IF \E e \in epochs : e.id = row.id
                      THEN [err |-> "UNIQUE constraint failed: epochs.id",
                            epoch |-> NULL, epochs |-> epochs]
                      ELSE [err |-> NoError, epoch |-> epoch, epochs |-> epochs \cup {row}]
        ELSE IF parentEpoch = NULL
             THEN [err |-> "Parent block epoch not found.", epoch |-> NULL, epochs |-> epochs]
             ELSE [err |-> NoError, epoch |-> parentEpoch, epochs |-> epochs]

\* Mutant: the stored height is the parent's height.
BlockRow_ParentHeight(raw, height, epoch, size, acc_work) ==
    [hash |-> Hash(raw),
     parent_hash |-> raw.ParentHash,
     parent_total_work |-> raw.ParentTotalWork,
     timestamp |-> raw.Timestamp,
     num_transactions |-> raw.NumTransactions,
     transactions_merkle_root |-> raw.TransactionsMerkleRoot,
     nonce |-> raw.Nonce,
     height |-> height - 1,
     epoch |-> GetId(epoch),
     size_bytes |-> size,
     acc_work |-> BigIntToBytes32(acc_work)]

\* Mutant: the stored acc_work is the block's own work, the parent's
\* accumulated work is not added.
BlockRow_OwnWork(raw, height, epoch, size, acc_work) ==
    [hash |-> Hash(raw),
     parent_hash |-> raw.ParentHash,
     parent_total_work |-> raw.ParentTotalWork,
     timestamp |-> raw.Timestamp,
     num_transactions |-> raw.NumTransactions,
     transactions_merkle_root |-> raw.TransactionsMerkleRoot,
     nonce |-> raw.Nonce,
     height |-> height,
     epoch |-> GetId(epoch),
     size_bytes |-> size,
     acc_work |-> BigIntToBytes32(CalculateWork(Hash(raw)))]

\* The blocks row both ingestion paths insert.
BlockRow(raw, height, epoch, size, acc_work) ==
    [hash |-> Hash(raw),
     parent_hash |-> raw.ParentHash,
     parent_total_work |-> raw.ParentTotalWork,
     timestamp |-> raw.Timestamp,
     num_transactions |-> raw.NumTransactions,
     transactions_merkle_root |-> raw.TransactionsMerkleRoot,
     nonce |-> raw.Nonce,
     height |-> height,
     epoch |-> GetId(epoch),
     size_bytes |-> size,
     acc_work |-> BigIntToBytes32(acc_work)]

\* The insert statement of the transactions table names 8 columns with 8
\* placeholders and is executed with 9 arguments (the block hash is passed
\* after the transaction hash).  The sqlite3 driver binds the first 8 and
\* drops the rest, so every column after hash holds the argument meant for
\* the column before it and the version argument is not stored.
TxInsertColumns ==
    <<"hash", "sig", "from_pubkey", "to_pubkey", "amount", "fee", "nonce", "version">>

TxInsertValues(blockhash, txhash, block_tx) ==
    <<txhash, blockhash, block_tx.Sig, block_tx.FromPubkey, [blob |-> block_tx.ToPubkey],
      block_tx.Amount, block_tx.Fee, block_tx.Nonce, block_tx.Version>>

TxRow(blockhash, txhash, block_tx) ==
    LET args == TxInsertValues(blockhash, txhash, block_tx)
    IN  [hash |-> args[1], sig |-> args[2], from_pubkey |-> args[3], to_pubkey |-> args[4],
         amount |-> args[5], fee |-> args[6], nonce |-> args[7], version |-> args[8]]

\* The loop "Insert transactions, transactions_blocks" inside the open
\* transaction, from index i on: the error of the first failing statement,
\* or the rows to commit.
RECURSIVE InsertTransactions(_, _, _, _, _)
InsertTransactions(blockhash, body, i, txs, tbs) ==
    IF i > Len(body) THEN [err |-> NoError, transactions |-> txs, transactions_blocks |-> tbs]
    ELSE LET txhash == TxHash(body[i])
             tbrow == [block_hash |-> blockhash, transaction_hash |-> txhash, txindex |-> i - 1]
         IN  IF tbrow \in tbs
             THEN [err |-> "UNIQUE constraint failed: transactions_blocks",
                   transactions |-> txs, transactions_blocks |-> tbs]
             ELSE IF \E t \in txs : t.hash = txhash
             THEN InsertTransactions(blockhash, body, i + 1, txs, tbs \cup {tbrow})
             ELSE IF Len(TxInsertValues(blockhash, txhash, body[i])) < Len(TxInsertColumns)
             THEN [err |-> "not enough args to execute query",
                   transactions |-> txs, transactions_blocks |-> tbs]
             ELSE InsertTransactions(blockhash, body, i + 1,
                      txs \cup {TxRow(blockhash, txhash, body[i])}, tbs \cup {tbrow})

\* Step 4: the first transaction failing verification decides the error.
VerifyTransactions(body, verifyTx) ==
    LET badSig == { i \in 1 .. Len(body) :
                      ~ VerifySignature(body[i].FromPubkey, body[i].Sig, Envelope(body[i])) }
    IN  IF badSig # {} /\ (verifyTx \/ Min(badSig) = 1)
        THEN "Transaction is invalid: signature invalid."
        ELSE IF Len(body) > 0 /\ ~ verifyTx
        THEN "Transaction is invalid."
        ELSE NoError

\* Mutant: the callback is invoked with its arguments swapped.
UpdateFullTip_Swapped(bs, es, txs, tbs) ==
    LET prev_tip == FullTip
        curr_tip == GetLatestTip(bs)
    IN  IF prev_tip.Hash # curr_tip.Hash
        THEN Outcome(NoError, bs, es, txs, tbs, curr_tip,
                     IF OnNewFullTip
                     THEN <<[tip |-> prev_tip, prevTip |-> curr_tip, dagFullTip |-> curr_tip,
                             rows |-> Len(bs)]>>
                     ELSE <<>>)
        ELSE Outcome(NoError, bs, es, txs, tbs, FullTip, <<>>)

\* The tip update that ends IngestBlock, after the commit.
UpdateFullTip(bs, es, txs, tbs) ==
    LET prev_tip == FullTip
        curr_tip == GetLatestTip(bs)
    IN  IF prev_tip.Hash # curr_tip.Hash
        THEN Outcome(NoError, bs, es, txs, tbs, curr_tip,
                     IF OnNewFullTip
                     THEN <<[tip |-> curr_tip, prevTip |-> prev_tip, dagFullTip |-> curr_tip,
                             rows |-> Len(bs)]>>
                     ELSE <<>>)
        ELSE Outcome(NoError, bs, es, txs, tbs, FullTip, <<>>)

\* Mutant: step 5, the merkle root check, is missing.
IngestBlockOp_NoMerkleCheck(raw, verifyTx) ==
    LET parentBlock == GetBlockByHash(blocks, raw.ParentHash)
        Fail(err, es) == Outcome(err, blocks, es, transactions, transactions_blocks, FullTip, <<>>)
    IN  IF parentBlock = NULL THEN Fail("Unknown parent block.", epochs)
        ELSE IF raw.NumTransactions # Len(raw.Transactions)
        THEN Fail("Num transactions does not match length of transactions list.", epochs)
        ELSE IF VerifyTransactions(raw.Transactions, verifyTx) # NoError
        THEN Fail(VerifyTransactions(raw.Transactions, verifyTx), epochs)
        ELSE
        LET height == parentBlock.Height + 1
            ep == ComputeEpoch(raw, height)
            blockHash == Hash(raw)
        IN  IF ep.err # NoError THEN Fail(ep.err, ep.epochs)
            ELSE IF ~ VerifyPOW(blockHash, ep.epoch.Difficulty)
            THEN Fail("POW solution is invalid.", ep.epochs)
            ELSE IF parentBlock.AccumulatedWork # Bytes32ToBigInt(raw.ParentTotalWork)
            THEN Fail("Parent total work is incorrect.", ep.epochs)
            ELSE IF consensus.MaxBlockSizeBytes < SizeBytes(raw)
            THEN Fail("Block size exceeds maximum block size.", ep.epochs)
            ELSE
            LET acc_work == parentBlock.AccumulatedWork + CalculateWork(blockHash)
            IN  IF ~ FitsBytes32(acc_work) THEN Fail(Panic, ep.epochs)
                ELSE IF HasBlock(blocks, blockHash)
                THEN Fail("UNIQUE constraint failed: blocks.hash", ep.epochs)
                ELSE
                LET row == BlockRow(raw, height, ep.epoch, SizeBytes(raw), acc_work)
                    ins == InsertTransactions(blockHash, raw.Transactions, 1,
                                              transactions, transactions_blocks)
                IN  IF ins.err # NoError THEN Fail(ins.err, ep.epochs)
                    ELSE UpdateFullTip(Append(blocks, row), ep.epochs,
                                       ins.transactions, ins.transactions_blocks)

\* BlockDAG.IngestBlock(raw); verifyTx is the answer of stateMachine.VerifyTx.
IngestBlockOp(raw, verifyTx) ==
    LET parentBlock == GetBlockByHash(blocks, raw.ParentHash)
        Fail(err, es) == Outcome(err, blocks, es, transactions, transactions_blocks, FullTip, <<>>)
    IN  IF parentBlock = NULL THEN Fail("Unknown parent block.", epochs)
        ELSE IF raw.NumTransactions # Len(raw.Transactions)
        THEN Fail("Num transactions does not match length of transactions list.", epochs)
        ELSE IF VerifyTransactions(raw.Transactions, verifyTx) # NoError
        THEN Fail(VerifyTransactions(raw.Transactions, verifyTx), epochs)
        ELSE IF ComputeMerkleHash([i \in 1 .. Len(raw.Transactions) |-> Envelope(raw.Transactions[i])])
                  # raw.TransactionsMerkleRoot
        THEN Fail("Merkle root does not match computed merkle root.", epochs)
        ELSE
        LET height == parentBlock.Height + 1
            ep == ComputeEpoch(raw, height)
            blockHash == Hash(raw)
        IN  IF ep.err # NoError THEN Fail(ep.err, ep.epochs)
            ELSE IF ~ VerifyPOW(blockHash, ep.epoch.Difficulty)
            THEN Fail("POW solution is invalid.", ep.epochs)
            ELSE IF parentBlock.AccumulatedWork # Bytes32ToBigInt(raw.ParentTotalWork)
            THEN Fail("Parent total work is incorrect.", ep.epochs)
            ELSE IF consensus.MaxBlockSizeBytes < SizeBytes(raw)
            THEN Fail("Block size exceeds maximum block size.", ep.epochs)
            ELSE
            LET acc_work == parentBlock.AccumulatedWork + CalculateWork(blockHash)
            IN  IF ~ FitsBytes32(acc_work) THEN Fail(Panic, ep.epochs)
                ELSE IF HasBlock(blocks, blockHash)
                THEN Fail("UNIQUE constraint failed: blocks.hash", ep.epochs)
                ELSE
                LET row == BlockRow(raw, height, ep.epoch, SizeBytes(raw), acc_work)
                    ins == InsertTransactions(blockHash, raw.Transactions, 1,
                                              transactions, transactions_blocks)
                IN  IF ins.err # NoError THEN Fail(ins.err, ep.epochs)
                    ELSE UpdateFullTip(Append(blocks, row), ep.epochs,
                                       ins.transactions, ins.transactions_blocks)

\* Mutant: the blocks row is written with "insert or replace", a stored
\* hash is no error.
IngestHeaderOp_Replace(raw) ==
    LET parentBlock == GetBlockByHash(blocks, raw.ParentHash)
        Fail(err, es) == Outcome(err, blocks, es, transactions, transactions_blocks, FullTip, <<>>)
    IN  IF parentBlock = NULL THEN Fail("Unknown parent block.", epochs)
        ELSE
        LET height == parentBlock.Height + 1
            ep == ComputeEpoch(raw, height)
            blockHash == Hash(raw)
        IN  IF ep.err # NoError THEN Fail(ep.err, ep.epochs)
            ELSE IF ~ VerifyPOW(blockHash, ep.epoch.Difficulty)
            THEN Fail("POW solution is invalid.", ep.epochs)
            ELSE IF parentBlock.AccumulatedWork # Bytes32ToBigInt(raw.ParentTotalWork)
            THEN Fail("Parent total work is incorrect.", ep.epochs)
            ELSE
            LET acc_work == parentBlock.AccumulatedWork + CalculateWork(blockHash)
            IN  IF ~ FitsBytes32(acc_work) THEN Fail(Panic, ep.epochs)
                ELSE Outcome(NoError,
                             Append(SelectSeq(blocks, LAMBDA r : r.hash # blockHash),
                                    BlockRow(raw, height, ep.epoch, 0, acc_work)),
                             ep.epochs, transactions, transactions_blocks, FullTip, <<>>)

\* BlockDAG.IngestHeader(raw)
IngestHeaderOp(raw) ==
    LET parentBlock == GetBlockByHash(blocks, raw.ParentHash)
        Fail(err, es) == Outcome(err, blocks, es, transactions, transactions_blocks, FullTip, <<>>)
    IN  IF parentBlock = NULL THEN Fail("Unknown parent block.", epochs)
        ELSE
        LET height == parentBlock.Height + 1
            ep == ComputeEpoch(raw, height)
            blockHash == Hash(raw)
        IN  IF ep.err # NoError THEN Fail(ep.err, ep.epochs)
            ELSE IF ~ VerifyPOW(blockHash, ep.epoch.Difficulty)
            THEN Fail("POW solution is invalid.", ep.epochs)
            ELSE IF parentBlock.AccumulatedWork # Bytes32ToBigInt(raw.ParentTotalWork)
            THEN Fail("Parent total work is incorrect.", ep.epochs)
            ELSE
            LET acc_work == parentBlock.AccumulatedWork + CalculateWork(blockHash)
            IN  IF ~ FitsBytes32(acc_work) THEN Fail(Panic, ep.epochs)
                ELSE IF HasBlock(blocks, blockHash)
                THEN Fail("UNIQUE constraint failed: blocks.hash", ep.epochs)
                ELSE Outcome(NoError, Append(blocks, BlockRow(raw, height, ep.epoch, 0, acc_work)),
                             ep.epochs, transactions, transactions_blocks, FullTip, <<>>)

\* ------------------------------------------------------------------------
\* Inputs.
\* ------------------------------------------------------------------------
Tx1 == MakeTransferTx(1, 2, 1, 0)
TxForged == [Tx1 EXCEPT !.Sig = (Tx1.Sig + 1) % 4]

Root(body) == ComputeMerkleHash([i \in 1 .. Len(body) |-> Envelope(body[i])])

Bodies ==
    { [NumTransactions |-> 0, TransactionsMerkleRoot |-> Root(<<>>), Transactions |-> <<>>],
      [NumTransactions |-> 1, TransactionsMerkleRoot |-> Root(<<>>), Transactions |-> <<>>],
      [NumTransactions |-> 0, TransactionsMerkleRoot |-> (Root(<<>>) + 1) % HashSpace, Transactions |-> <<>>],
      [NumTransactions |-> 1, TransactionsMerkleRoot |-> Root(<<Tx1>>), Transactions |-> <<Tx1>>],
      [NumTransactions |-> 1, TransactionsMerkleRoot |-> 0, Transactions |-> <<Tx1>>],
      [NumTransactions |-> 1, TransactionsMerkleRoot |-> Root(<<TxForged>>), Transactions |-> <<TxForged>>],
      [NumTransactions |-> 2, TransactionsMerkleRoot |-> Root(<<Tx1, Tx1>>), Transactions |-> <<Tx1, Tx1>>] }

RawBlock(parent, ptw, ts, nonce, body) ==
    [ParentHash |-> parent, ParentTotalWork |-> ptw, Timestamp |-> ts,
     NumTransactions |-> body.NumTransactions,
     TransactionsMerkleRoot |-> body.TransactionsMerkleRoot,
     Nonce |-> nonce, Transactions |-> body.Transactions]

\* ------------------------------------------------------------------------
\* Initial state: NewBlockDAGFromDB on an empty store.
\* ------------------------------------------------------------------------
initialiseBlockDAG ==
    LET genesisBlock == GetRawGenesisBlockFromConfig
        genesisBlockHash == Hash(genesisBlock)
        epoch0 == [Number |-> 0, StartBlockHash |-> genesisBlockHash,
                   StartTime |-> genesisBlock.Timestamp, StartHeight |-> 0,
                   Difficulty |-> consensus.GenesisDifficulty]
        work == CalculateWork(genesisBlockHash)
    IN  [epochs |-> { [id |-> GetId(epoch0),
                       start_block_hash |-> epoch0.StartBlockHash,
                       start_time |-> epoch0.StartTime,
                       start_height |-> epoch0.StartHeight,
                       difficulty |-> BigIntBytes(epoch0.Difficulty)] },
         blocks |-> << [hash |-> genesisBlockHash,
                        parent_hash |-> genesisBlock.ParentHash,
                        parent_total_work |-> genesisBlock.ParentTotalWork,
                        timestamp |-> genesisBlock.Timestamp,
                        num_transactions |-> genesisBlock.NumTransactions,
                        transactions_merkle_root |-> genesisBlock.TransactionsMerkleRoot,
                        nonce |-> genesisBlock.Nonce,
                        height |-> 0,
                        epoch |-> GetId(epoch0),
                        size_bytes |-> SizeBytes(genesisBlock),
                        acc_work |-> PadBytes(BigIntToBytes32(work), Bytes32Len)] >>]

\* The record of the last call: the operation, the error it returned, the
\* callback invocations it made, and what held of its input when it was
\* made: whether raw.ParentHash was a stored block, whether
\* raw.ParentTotalWork was that block's stored acc_work, and the tables
\* the call changed.
NoCall ==
    [op |-> "NewBlockDAGFromDB", err |-> NoError, calls |-> <<>>,
     parentStored |-> FALSE, workMatches |-> FALSE, stored |-> {"blocks", "epochs"}]

\* The goroutines that call IngestBlock on the one BlockDAG, and a call that
\* has not started.
Callers == 1 .. 2
Idle == [pc |-> "idle"]

NewBlockDAGFromDB ==
    /\ inflight = [p \in Callers |-> Idle]
    /\ blocks = initialiseBlockDAG.blocks
    /\ epochs = initialiseBlockDAG.epochs
    /\ transactions = {}
    /\ transactions_blocks = {}
    /\ HeadersTip = GetLatestTip(initialiseBlockDAG.blocks)
    /\ FullTip = GetLatestTip(initialiseBlockDAG.blocks)
    /\ last = NoCall

InitDAG ==
    /\ NewBlockDAGFromDB
    /\ OnNewFullTip \in BOOLEAN

NewStateMachine ==
    /\ state = [k \in Keys |-> 0]
    /\ sm = [op |-> "NewStateMachine"]

\* ------------------------------------------------------------------------
\* Actions of the DAG.
\* ------------------------------------------------------------------------
\* The inputs tried in a state: every stored hash and one unknown hash as
\* the parent; the parent's accumulated work and a wrong value as the
\* parent_total_work commitment.
ParentHashes ==
    { r.hash : r \in BlockRows(blocks) }
       \cup { Min({ h \in 0 .. U256Max + 1 : ~ HasBlock(blocks, h) }) }

ParentTotalWorks(parent) ==
    IF HasBlock(blocks, parent)
    THEN LET w == GetBlockByHash(blocks, parent).AccumulatedWork
         IN  { BigIntToBytes32(w), BigIntToBytes32((w + 1) % HashSpace) }
    ELSE { BigIntToBytes32(0) }

\* IngestHeader reads the header fields only.
Headers ==
    { [NumTransactions |-> b.NumTransactions,
       TransactionsMerkleRoot |-> b.TransactionsMerkleRoot,
       Transactions |-> <<>>] : b \in Bodies }

WithinBounds == Len(blocks) < MaxBlocks /\ Cardinality(epochs) < MaxEpochs

Commit(op, raw, out) ==
    /\ blocks' = out.blocks
    /\ epochs' = out.epochs
    /\ transactions' = out.transactions
    /\ transactions_blocks' = out.transactions_blocks
    /\ FullTip' = out.FullTip
    /\ last' = [op |-> op, err |-> out.err, calls |-> out.calls,
                parentStored |-> HasBlock(blocks, raw.ParentHash),
                workMatches |-> \E p \in BlockRows(blocks) :
                                  /\ p.hash = raw.ParentHash
                                  /\ p.acc_work = raw.ParentTotalWork,
                stored |-> (IF out.blocks # blocks THEN {"blocks"} ELSE {})
                           \cup (IF out.epochs # epochs THEN {"epochs"} ELSE {})
                           \cup (IF out.transactions # transactions
                                 THEN {"transactions"} ELSE {})
                           \cup (IF out.transactions_blocks # transactions_blocks
                                 THEN {"transactions_blocks"} ELSE {})]
    /\ UNCHANGED <<HeadersTip, OnNewFullTip>>

IngestBlock ==
    /\ WithinBounds
    /\ \E parent \in ParentHashes :
       \E ptw \in ParentTotalWorks(parent), ts \in 1 .. MaxTimestamp,
          nonce \in 0 .. MaxNonce, body \in Bodies :
         \E verifyTx \in (IF Len(body.Transactions) = 0 THEN {TRUE} ELSE BOOLEAN) :
            Commit("IngestBlock", RawBlock(parent, ptw, ts, nonce, body),
                   IngestBlockOp(RawBlock(parent, ptw, ts, nonce, body), verifyTx))
    /\ UNCHANGED <<smVars, inflight>>

IngestHeader ==
    /\ WithinBounds
    /\ \E parent \in ParentHashes :
       \E ptw \in ParentTotalWorks(parent), ts \in 1 .. MaxTimestamp,
          nonce \in 0 .. MaxNonce, body \in Headers :
         Commit("IngestHeader", RawBlock(parent, ptw, ts, nonce, body),
                IngestHeaderOp(RawBlock(parent, ptw, ts, nonce, body)))
    /\ UNCHANGED <<smVars, inflight>>

NextDAG == IngestBlock \/ IngestHeader

InitIngest == InitDAG /\ NewStateMachine

SpecDAG == InitIngest /\ [][NextDAG]_vars

\* ------------------------------------------------------------------------
\* The state machine.
\* ------------------------------------------------------------------------
ErrInsufficientBalance == "insufficient balance"
ErrToBalanceOverflow == "\"to\" balance overflow"
ErrMinerBalanceOverflow == "\"miner\" balance overflow"
ErrAmountPlusFeeOverflow == "(amount + fee) overflow"
ErrUnsupportedVersion == "unsupported transaction version"

\* uint64 arithmetic.
Add64(x, y) == [sum |-> (x + y) % (U64Max + 1), carry |-> (x + y) \div (U64Max + 1)]
WrapAdd(x, y) == (x + y) % (U64Max + 1)
WrapSub(x, y) == (x - y) % (U64Max + 1)

GetBalance(st, account) == st[account]

RECURSIVE ApplyLeaves(_, _)
\* StateMachine.Apply: the leaves overwrite the balances, in order.
ApplyLeaves(st, leafs) ==
    IF Len(leafs) = 0 THEN st
    ELSE ApplyLeaves([st EXCEPT ![leafs[1].PubKey] = leafs[1].Balance], Tail(leafs))

\* The result of a transition: the leaves, the error, and the state map the
\* call leaves behind.
Effects(leaves, err, st) == [leaves |-> leaves, err |-> err, state |-> st]

\* Mutant: the fee is deducted from the sender as well.
transitionTransfer_DeductFee(st, input) ==
    LET fromBalance == GetBalance(st, input.RawTransaction.FromPubkey)
        toBalance == GetBalance(st, input.RawTransaction.ToPubkey)
        minerBalance == GetBalance(st, input.MinerPubkey)
        amount == input.RawTransaction.Amount
        fee == input.RawTransaction.Fee
    IN  IF Add64(toBalance, amount).carry # 0 THEN Effects(<<>>, ErrToBalanceOverflow, st)
        ELSE IF Add64(minerBalance, fee).carry # 0 THEN Effects(<<>>, ErrMinerBalanceOverflow, st)
        ELSE IF Add64(amount, fee).carry # 0 THEN Effects(<<>>, ErrAmountPlusFeeOverflow, st)
        ELSE IF fromBalance < WrapAdd(amount, fee) THEN Effects(<<>>, ErrInsufficientBalance, st)
        ELSE Effects(<< [PubKey |-> input.RawTransaction.FromPubkey,
                         Balance |-> WrapSub(fromBalance, WrapAdd(amount, fee))],
                        [PubKey |-> input.RawTransaction.ToPubkey,
                         Balance |-> WrapAdd(toBalance, amount)],
                        [PubKey |-> input.MinerPubkey,
                         Balance |-> WrapAdd(minerBalance, fee)] >>,
                     NoError, st)

\* Mutant: amount + fee is not checked for overflow.
transitionTransfer_NoSumCheck(st, input) ==
    LET fromBalance == GetBalance(st, input.RawTransaction.FromPubkey)
        toBalance == GetBalance(st, input.RawTransaction.ToPubkey)
        minerBalance == GetBalance(st, input.MinerPubkey)
        amount == input.RawTransaction.Amount
        fee == input.RawTransaction.Fee
    IN  IF Add64(toBalance, amount).carry # 0 THEN Effects(<<>>, ErrToBalanceOverflow, st)
        ELSE IF Add64(minerBalance, fee).carry # 0 THEN Effects(<<>>, ErrMinerBalanceOverflow, st)
        ELSE IF fromBalance < WrapAdd(amount, fee) THEN Effects(<<>>, ErrInsufficientBalance, st)
        ELSE Effects(<< [PubKey |-> input.RawTransaction.FromPubkey,
                         Balance |-> WrapSub(fromBalance, amount)],
                        [PubKey |-> input.RawTransaction.ToPubkey,
                         Balance |-> WrapAdd(toBalance, amount)],
                        [PubKey |-> input.MinerPubkey,
                         Balance |-> WrapAdd(minerBalance, fee)] >>,
                     NoError, st)

\* Mutant: the leaves are emitted miner first.
transitionTransfer_MinerFirst(st, input) ==
    LET fromBalance == GetBalance(st, input.RawTransaction.FromPubkey)
        toBalance == GetBalance(st, input.RawTransaction.ToPubkey)
        minerBalance == GetBalance(st, input.MinerPubkey)
        amount == input.RawTransaction.Amount
        fee == input.RawTransaction.Fee
    IN  IF Add64(toBalance, amount).carry # 0 THEN Effects(<<>>, ErrToBalanceOverflow, st)
        ELSE IF Add64(minerBalance, fee).carry # 0 THEN Effects(<<>>, ErrMinerBalanceOverflow, st)
        ELSE IF Add64(amount, fee).carry # 0 THEN Effects(<<>>, ErrAmountPlusFeeOverflow, st)
        ELSE IF fromBalance < WrapAdd(amount, fee) THEN Effects(<<>>, ErrInsufficientBalance, st)
        ELSE Effects(<< [PubKey |-> input.MinerPubkey,
                         Balance |-> WrapAdd(minerBalance, fee)],
                        [PubKey |-> input.RawTransaction.FromPubkey,
                         Balance |-> WrapSub(fromBalance, amount)],
                        [PubKey |-> input.RawTransaction.ToPubkey,
                         Balance |-> WrapAdd(toBalance, amount)] >>,
                     NoError, st)

transitionTransfer(st, input) ==
    LET fromBalance == GetBalance(st, input.RawTransaction.FromPubkey)
        toBalance == GetBalance(st, input.RawTransaction.ToPubkey)
        minerBalance == GetBalance(st, input.MinerPubkey)
        amount == input.RawTransaction.Amount
        fee == input.RawTransaction.Fee
    IN  IF Add64(toBalance, amount).carry # 0 THEN Effects(<<>>, ErrToBalanceOverflow, st)
        ELSE IF Add64(minerBalance, fee).carry # 0 THEN Effects(<<>>, ErrMinerBalanceOverflow, st)
        ELSE IF Add64(amount, fee).carry # 0 THEN Effects(<<>>, ErrAmountPlusFeeOverflow, st)
        ELSE IF fromBalance < WrapAdd(amount, fee) THEN Effects(<<>>, ErrInsufficientBalance, st)
        ELSE Effects(<< [PubKey |-> input.RawTransaction.FromPubkey,
                         Balance |-> WrapSub(fromBalance, amount)],
                        [PubKey |-> input.RawTransaction.ToPubkey,
                         Balance |-> WrapAdd(toBalance, amount)],
                        [PubKey |-> input.MinerPubkey,
                         Balance |-> WrapAdd(minerBalance, fee)] >>,
                     NoError, st)

\* Mutant: the coinbase starts from the balance of the from key.
transitionCoinbase_ReadsFrom(st, input) ==
    LET toBalance == GetBalance(st, input.RawTransaction.FromPubkey)
        amount == input.RawTransaction.Amount
    IN  IF Add64(toBalance, amount).carry # 0 THEN Effects(<<>>, ErrToBalanceOverflow, st)
        ELSE Effects(<< [PubKey |-> input.RawTransaction.ToPubkey,
                         Balance |-> WrapAdd(toBalance, amount)] >>,
                     NoError, st)

transitionCoinbase(st, input) ==
    LET toBalance == GetBalance(st, input.RawTransaction.ToPubkey)
        amount == input.RawTransaction.Amount
    IN  IF Add64(toBalance, amount).carry # 0 THEN Effects(<<>>, ErrToBalanceOverflow, st)
        ELSE Effects(<< [PubKey |-> input.RawTransaction.ToPubkey,
                         Balance |-> WrapAdd(toBalance, amount)] >>,
                     NoError, st)

\* Mutant: the transition writes its leaves into the state map itself.
TransitionOp_InPlace(st, input) ==
    IF input.RawTransaction.Version # 1 THEN Effects(<<>>, ErrUnsupportedVersion, st)
    ELSE IF input.IsCoinbase
    THEN Effects(transitionCoinbase(st, input).leaves, transitionCoinbase(st, input).err,
                 ApplyLeaves(st, transitionCoinbase(st, input).leaves))
    ELSE Effects(transitionTransfer(st, input).leaves, transitionTransfer(st, input).err,
                 ApplyLeaves(st, transitionTransfer(st, input).leaves))

\* StateMachine.Transition
TransitionOp(st, input) ==
    IF input.RawTransaction.Version # 1 THEN Effects(<<>>, ErrUnsupportedVersion, st)
    ELSE IF input.IsCoinbase THEN transitionCoinbase(st, input)
    ELSE transitionTransfer(st, input)

\* Inputs of the state machine: balances and amounts at both ends of uint64.
Balances == {0, 1, U64Max - 5, U64Max}
Amounts == {0, 1, 10, U64Max}
Fees == {0, 1, U64Max}
Versions == {1, 2}

StateMachineInput(version, from, to, amount, fee, isCoinbase, miner) ==
    [RawTransaction |-> [Version |-> version, Sig |-> 0, FromPubkey |-> from,
                         ToPubkey |-> to, Amount |-> amount, Fee |-> fee, Nonce |-> 0],
     IsCoinbase |-> isCoinbase,
     MinerPubkey |-> miner]

\* A state machine holding any balances (every map is reachable by
\* coinbase transitions from the empty one).
InitBalances ==
    /\ state \in [Keys -> Balances]
    /\ sm = [op |-> "NewStateMachine"]

Transition ==
    /\ sm.op = "NewStateMachine"
    /\ \E version \in Versions, from \in Keys, to \in Keys, amount \in Amounts,
          fee \in Fees, isCoinbase \in BOOLEAN, miner \in Keys :
         LET input == StateMachineInput(version, from, to, amount, fee, isCoinbase, miner)
             out == TransitionOp(state, input)
         IN  /\ state' = out.state
             /\ sm' = [op |-> "Transition", input |-> input, leaves |-> out.leaves,
                       err |-> out.err, pre |-> state]
    /\ UNCHANGED <<dagVars, inflight>>

Apply ==
    /\ sm.op = "Transition"
    /\ sm.err = NoError
    /\ state' = ApplyLeaves(state, sm.leaves)
    /\ sm' = [sm EXCEPT !.op = "Apply"]
    /\ UNCHANGED <<dagVars, inflight>>

NextSM == Transition \/ Apply

InitTransition ==
    /\ NewBlockDAGFromDB
    /\ OnNewFullTip = FALSE
    /\ InitBalances

SpecSM == InitTransition /\ [][NextSM]_vars

\* ------------------------------------------------------------------------
\* Block bodies, reopening, replay.
\* ------------------------------------------------------------------------
\* Block.ToRawBlock(): the header fields of a stored block; GetBlockByHash
\* loads no transactions.
ToRawBlock(block) ==
    [ParentHash |-> block.ParentHash,
     ParentTotalWork |-> BigIntToBytes32(block.ParentTotalWork),
     Timestamp |-> block.Timestamp,
     NumTransactions |-> block.NumTransactions,
     TransactionsMerkleRoot |-> block.TransactionsMerkleRoot,
     Nonce |-> block.Nonce,
     Transactions |-> <<>>]

\* BlockDAG.IngestBlockBody(blockhash, body) on the store (bs, es, txs, tbs):
\* steps 3 to 5 read raw.Transactions of the block read back from the
\* store, body is assigned to it only before the size check.
IngestBlockBodyOp(bs, es, txs, tbs, tip, blockhash, body, verifyTx) ==
    LET block == GetBlockByHash(bs, blockhash)
        Fail(err) == Outcome(err, bs, es, txs, tbs, tip, <<>>)
    IN  IF block = NULL THEN Fail("Block header missing during body ingestion.")
        ELSE
        LET raw == ToRawBlock(block)
        IN  IF raw.NumTransactions # Len(raw.Transactions)
            THEN Fail("Num transactions does not match length of transactions list.")
            ELSE IF VerifyTransactions(raw.Transactions, verifyTx) # NoError
            THEN Fail(VerifyTransactions(raw.Transactions, verifyTx))
            ELSE IF ComputeMerkleHash([i \in 1 .. Len(raw.Transactions) |->
                                          Envelope(raw.Transactions[i])])
                      # raw.TransactionsMerkleRoot
            THEN Fail("Merkle root does not match computed merkle root.")
            ELSE IF consensus.MaxBlockSizeBytes < SizeBytes([raw EXCEPT !.Transactions = body])
            THEN Fail("Block size exceeds maximum block size.")
            ELSE LET ins == InsertTransactions(blockhash, body, 1, txs, tbs)
                 IN  IF ins.err # NoError THEN Fail(ins.err)
                     ELSE Outcome(NoError, bs, es, ins.transactions,
                                  ins.transactions_blocks, tip, <<>>)

\* The columns of table transactions.
TransactionsColumns == { TxInsertColumns[i] : i \in 1 .. Len(TxInsertColumns) }

\* rows.Scan of an integer column into a uint64: a blob that is not a
\* decimal number does not convert.
ScansAsUint64(v) == v \in Nat

\* Transaction.ToRawTransaction()
ToRawTransaction(tx) ==
    [Version |-> tx.Version, Sig |-> tx.Sig, FromPubkey |-> tx.FromPubkey,
     ToPubkey |-> tx.ToPubkey, Amount |-> tx.Amount, Fee |-> tx.Fee, Nonce |-> tx.Nonce]

\* BlockDAG.GetBlockTransactions(hash): the count query selects on a column
\* block_hash of table transactions; the join then fills a buffer of count
\* entries at the positions txindex.
GetBlockTransactions(txs, tbs, hash) ==
    IF "block_hash" \notin TransactionsColumns
    THEN [err |-> "no such column: block_hash", txs |-> NULL]
    ELSE LET count == Cardinality({ t \in txs : t.block_hash = hash })
             joined == { <<t, tb>> \in txs \X tbs :
                           t.hash = tb.transaction_hash /\ tb.block_hash = hash }
         IN  IF \E j \in joined :
                   ~ ScansAsUint64(j[1].amount) \/ ~ ScansAsUint64(j[1].fee)
                     \/ ~ ScansAsUint64(j[1].nonce)
             THEN [err |-> "sql: Scan error", txs |-> NULL]
             ELSE IF \E j \in joined : j[2].txindex >= count
             THEN [err |-> Panic, txs |-> NULL]
             ELSE [err |-> NoError,
                   txs |-> [i \in 1 .. count |->
                              LET j == CHOOSE j \in joined : j[2].txindex = i - 1
                              IN  [Hash |-> j[1].hash, Sig |-> j[1].sig,
                                   FromPubkey |-> j[1].from_pubkey,
                                   ToPubkey |-> j[1].to_pubkey,
                                   Amount |-> j[1].amount, Fee |-> j[1].fee,
                                   Nonce |-> j[1].nonce, TxIndex |-> j[2].txindex,
                                   Version |-> j[1].version]]]

\* The inner loop of RebuildState over the transactions of one block, from
\* position i on: the first is the coinbase and names the miner.  The
\* stateMachine parameter is a copy of the caller's struct and shares its
\* map, so st is the caller's state map also when an error is returned;
\* txindex is the index the error message names.
RECURSIVE ReplayTransactions(_, _, _)
ReplayTransactions(st, txs, i) ==
    IF i > Len(txs) THEN [state |-> st, err |-> NoError, txindex |-> <<>>]
    ELSE LET stateMachineInput ==
                 [RawTransaction |-> ToRawTransaction(txs[i]),
                  IsCoinbase |-> (i = 1),
                  MinerPubkey |-> txs[1].FromPubkey]
             effects == TransitionOp(st, stateMachineInput)
         IN  IF effects.err # NoError
             THEN [state |-> st, err |-> "Error transitioning state machine",
                   txindex |-> <<i - 1>>]
             ELSE ReplayTransactions(ApplyLeaves(st, effects.leaves), txs, i + 1)

\* RebuildState(dag, stateMachine, longestChainHashList): the state map the
\* call leaves, the error it returns and the (block, txindex) the error
\* message names: the error of GetBlockTransactions is returned as it is.
RECURSIVE RebuildStateOp(_, _, _, _)
RebuildStateOp(st, txs, tbs, longestChainHashList) ==
    IF Len(longestChainHashList) = 0 THEN [state |-> st, err |-> NoError, at |-> <<>>]
    ELSE LET got == GetBlockTransactions(txs, tbs, Head(longestChainHashList))
         IN  IF got.err # NoError THEN [state |-> st, err |-> got.err, at |-> <<>>]
             ELSE LET block == ReplayTransactions(st, got.txs, 1)
                  IN  IF block.err # NoError
                      THEN [state |-> block.state, err |-> block.err,
                            at |-> <<Head(longestChainHashList)>> \o block.txindex]
                      ELSE RebuildStateOp(block.state, txs, tbs, Tail(longestChainHashList))

\* The bodies handed to IngestBlockBody.
BodyLists == { <<>>, <<Tx1>>, <<TxForged>>, <<Tx1, Tx1>> }

IngestBlockBody ==
    /\ WithinBounds
    /\ \E blockhash \in ParentHashes, body \in BodyLists :
         LET out == IngestBlockBodyOp(blocks, epochs, transactions, transactions_blocks,
                                      FullTip, blockhash, body, TRUE)
         IN  /\ blocks' = out.blocks
             /\ epochs' = out.epochs
             /\ transactions' = out.transactions
             /\ transactions_blocks' = out.transactions_blocks
             /\ FullTip' = out.FullTip
             /\ last' = [op |-> "IngestBlockBody", err |-> out.err, calls |-> out.calls,
                         hash |-> blockhash, body |-> body, prevTip |-> FullTip,
                         stored |-> (IF out.transactions # transactions
                                     THEN {"transactions"} ELSE {})
                                    \cup (IF out.transactions_blocks # transactions_blocks
                                          THEN {"transactions_blocks"} ELSE {})]
    /\ UNCHANGED <<HeadersTip, OnNewFullTip>>
    /\ UNCHANGED <<smVars, inflight>>

\* Mutant: the genesis block and epoch are written on every open.
ReopenDAG_Reinitialises ==
    /\ WithinBounds
    /\ blocks' = blocks \o initialiseBlockDAG.blocks
    /\ epochs' = epochs \cup initialiseBlockDAG.epochs
    /\ HeadersTip' = GetLatestTip(blocks')
    /\ FullTip' = GetLatestTip(blocks')
    /\ OnNewFullTip' \in BOOLEAN
    /\ last' = [op |-> "ReopenDAG", err |-> NoError, calls |-> <<>>,
                stored |-> (IF blocks' # blocks THEN {"blocks"} ELSE {})
                           \cup (IF epochs' # epochs THEN {"epochs"} ELSE {})]
    /\ UNCHANGED <<transactions, transactions_blocks>>
    /\ UNCHANGED <<smVars, inflight>>

\* NewBlockDAGFromDB on the store as it is: initialiseBlockDAG returns at
\* once when the genesis block is stored, and both tips are read anew.
ReopenDAG ==
    /\ WithinBounds
    /\ blocks' = (IF HasBlock(blocks, Hash(GetRawGenesisBlockFromConfig))
                  THEN blocks ELSE initialiseBlockDAG.blocks)
    /\ epochs' = (IF HasBlock(blocks, Hash(GetRawGenesisBlockFromConfig))
                  THEN epochs ELSE initialiseBlockDAG.epochs)
    /\ HeadersTip' = GetLatestTip(blocks')
    /\ FullTip' = GetLatestTip(blocks')
    /\ OnNewFullTip' \in BOOLEAN
    /\ last' = [op |-> "ReopenDAG", err |-> NoError, calls |-> <<>>,
                stored |-> (IF blocks' # blocks THEN {"blocks"} ELSE {})
                           \cup (IF epochs' # epochs THEN {"epochs"} ELSE {})]
    /\ UNCHANGED <<transactions, transactions_blocks>>
    /\ UNCHANGED <<smVars, inflight>>

\* The hash lists handed to RebuildState: the empty list, one stored block,
\* a stored block and one of its children.
HashLists ==
    { <<>> } \cup { <<r.hash>> : r \in BlockRows(blocks) }
       \cup { <<p.hash, r.hash>> : <<p, r>> \in
                { pr \in BlockRows(blocks) \X BlockRows(blocks) :
                    pr[2].parent_hash = pr[1].hash /\ pr[2].hash # pr[1].hash } }

RebuildState ==
    /\ WithinBounds
    /\ \E longestChainHashList \in HashLists :
         LET out == RebuildStateOp(state, transactions, transactions_blocks,
                                   longestChainHashList)
         IN  /\ state' = out.state
             /\ sm' = [op |-> "RebuildState", list |-> longestChainHashList,
                       err |-> out.err, at |-> out.at, pre |-> state]
    /\ UNCHANGED <<dagVars, inflight>>

\* ------------------------------------------------------------------------
\* Chain queries.
\* ------------------------------------------------------------------------
\* driver.DefaultParameterConverter on a uint64 argument: a value with the
\* high bit set is refused, any other is bound as an int64.
ConvertsToInt64(u) == u < 2 ^ (U64Bits - 1)

\* The recursive common table expression block_path: the row of hash at the
\* given depth, then, while depth < depthFromTip, the row its parent_hash
\* joins to.
RECURSIVE block_path(_, _, _, _)
block_path(bs, hash, depth, depthFromTip) ==
    IF ~ HasBlock(bs, hash) THEN <<>>
    ELSE LET b == CHOOSE r \in BlockRows(bs) : r.hash = hash
         IN  <<[hash |-> b.hash, parent_hash |-> b.parent_hash, depth |-> depth]>>
               \o (IF depth < depthFromTip
                   THEN block_path(bs, b.parent_hash, depth + 1, depthFromTip)
                   ELSE <<>>)

\* BlockDAG.GetLongestChainHashList(startHash, depthFromTip): the hashes of
\* block_path ordered by depth descending.
GetLongestChainHashList(bs, startHash, depthFromTip) ==
    IF ~ ConvertsToInt64(depthFromTip)
    THEN [err |-> "uint64 values with high bit set are not supported", list |-> <<>>]
    ELSE LET path == block_path(bs, startHash, 1, depthFromTip)
         IN  [err |-> NoError,
              list |-> [i \in 1 .. Len(path) |-> path[Len(path) + 1 - i].hash]]

\* Ingestion of headers, bodies and whole blocks.
NextBody == IngestBlock \/ IngestHeader \/ IngestBlockBody
SpecBody == InitIngest /\ [][NextBody]_vars

\* Ingestion with the DAG opened again at any time.
NextReopen == IngestBlock \/ IngestHeader \/ ReopenDAG
SpecReopen == InitIngest /\ [][NextReopen]_vars

\* Ingestion with a replay at any time.
NextReplay == IngestBlock \/ IngestHeader \/ RebuildState
SpecReplay == InitIngest /\ [][NextReplay]_vars

NextStore == IngestBlock \/ IngestHeader \/ IngestBlockBody \/ ReopenDAG \/ RebuildState

\* ------------------------------------------------------------------------
\* IngestBlock called from several goroutines.
\* ------------------------------------------------------------------------
\* The steps of one IngestBlock call that touch shared state: the checks and
\* the commit of the store transaction, the read of dag.FullTip into
\* prev_tip, the GetLatestTip query into curr_tip, the write of dag.FullTip
\* and the callback.  Nothing in IngestBlock locks the BlockDAG.  The reads
\* and writes of dag.FullTip are taken as atomic here; unsynchronised, they
\* may also tear the struct, which adds outcomes and removes none.
IngestBlockCommit(p) ==
    /\ inflight[p].pc = "idle"
    /\ WithinBounds
    /\ \E parent \in ParentHashes :
       \E ptw \in ParentTotalWorks(parent), ts \in 1 .. MaxTimestamp,
          nonce \in 0 .. MaxNonce, body \in Bodies :
         LET raw == RawBlock(parent, ptw, ts, nonce, body)
             out == IngestBlockOp(raw, TRUE)
         IN  /\ blocks' = out.blocks
             /\ epochs' = out.epochs
             /\ transactions' = out.transactions
             /\ transactions_blocks' = out.transactions_blocks
             /\ inflight' = [inflight EXCEPT ![p] =
                               IF out.err = NoError
                               THEN [pc |-> "committed", hash |-> Hash(raw)]
                               ELSE [pc |-> "returned", hash |-> Hash(raw),
                                     err |-> out.err, calls |-> <<>>]]
    /\ UNCHANGED <<HeadersTip, FullTip, OnNewFullTip, last, smVars>>

\* prev_tip := dag.FullTip
ReadFullTip(p) ==
    /\ inflight[p].pc = "committed"
    /\ inflight' = [inflight EXCEPT ![p] =
                      [pc |-> "read", hash |-> inflight[p].hash, prev_tip |-> FullTip]]
    /\ UNCHANGED <<dagVars, smVars>>

\* curr_tip, err := dag.GetLatestTip()
QueryLatestTip(p) ==
    /\ inflight[p].pc = "read"
    /\ inflight' = [inflight EXCEPT ![p] =
                      [pc |-> "queried", hash |-> inflight[p].hash,
                       prev_tip |-> inflight[p].prev_tip,
                       curr_tip |-> GetLatestTip(blocks)]]
    /\ UNCHANGED <<dagVars, smVars>>

\* if prev_tip.Hash != curr_tip.Hash { dag.FullTip = curr_tip ... }
WriteFullTip(p) ==
    /\ inflight[p].pc = "queried"
    /\ IF inflight[p].prev_tip.Hash # inflight[p].curr_tip.Hash
       THEN /\ FullTip' = inflight[p].curr_tip
            /\ inflight' = [inflight EXCEPT ![p] =
                              [pc |-> "written", hash |-> inflight[p].hash,
                               prev_tip |-> inflight[p].prev_tip,
                               curr_tip |-> inflight[p].curr_tip]]
       ELSE /\ FullTip' = FullTip
            /\ inflight' = [inflight EXCEPT ![p] =
                              [pc |-> "returned", hash |-> inflight[p].hash,
                               err |-> NoError, calls |-> <<>>]]
    /\ UNCHANGED <<blocks, epochs, transactions, transactions_blocks, HeadersTip,
                   OnNewFullTip, last, smVars>>

\* if dag.OnNewFullTip != nil { dag.OnNewFullTip(curr_tip, prev_tip) }; return nil
InvokeOnNewFullTip(p) ==
    /\ inflight[p].pc = "written"
    /\ inflight' = [inflight EXCEPT ![p] =
                      [pc |-> "returned", hash |-> inflight[p].hash, err |-> NoError,
                       calls |-> IF OnNewFullTip
                                 THEN <<[tip |-> inflight[p].curr_tip,
                                         prevTip |-> inflight[p].prev_tip,
                                         dagFullTip |-> FullTip, rows |-> Len(blocks)]>>
                                 ELSE <<>>]]
    /\ UNCHANGED <<dagVars, smVars>>

NextConcurrent ==
    \E p \in Callers :
       \/ IngestBlockCommit(p)
       \/ ReadFullTip(p)
       \/ QueryLatestTip(p)
       \/ WriteFullTip(p)
       \/ InvokeOnNewFullTip(p)

SpecConcurrent == InitIngest /\ [][NextConcurrent]_vars

Init == InitIngest
Next == NextStore \/ NextSM \/ NextConcurrent
Spec == Init /\ [][Next]_vars

\* ------------------------------------------------------------------------
\* Properties of ingestion (checked under SpecDAG).
\* ------------------------------------------------------------------------
IsError(err) == err # NoError /\ err # Panic
IngestOps == {"IngestBlock", "IngestHeader"}
GenesisHash == Hash(GetRawGenesisBlockFromConfig)
Rows == BlockRows(blocks)
AccWork(r) == BlockFromRow(r).AccumulatedWork
MaxAccWork == Max({ AccWork(r) : r \in Rows })

\* C1: an ingestion call that returns an error leaves the four tables
\* exactly as they were before the call.
C1_IngestAllOrNothing ==
    [][ (last'.op \in IngestOps /\ IsError(last'.err))
          => /\ blocks' = blocks
             /\ epochs' = epochs
             /\ transactions' = transactions
             /\ transactions_blocks' = transactions_blocks ]_vars

C3_ParentLinks ==
    /\ \A r \in Rows :
         r.hash # GenesisHash
           => \E p \in Rows : p.hash = r.parent_hash /\ r.height = p.height + 1
    /\ (last.op \in IngestOps /\ ~ last.parentStored)
         => IsError(last.err) /\ last.stored = {}

C3_Witness ==
    /\ last.op \in IngestOps
    /\ ~ last.parentStored
    /\ last.err = "Unknown parent block."
    /\ \E r \in Rows : r.height = 1

\* C4: every stored non-genesis block commits to its parent's accumulated
\* work (parent_total_work is the parent's acc_work, byte for byte) and
\* accumulates its own work on top of it; a block whose parent_total_work
\* differs from the stored acc_work of its parent is rejected.
C4_AccumulatedWork ==
    /\ \A r \in Rows :
         r.hash # GenesisHash
           => \A p \in Rows :
                p.hash = r.parent_hash
                  => /\ r.parent_total_work = p.acc_work
                     /\ AccWork(r) = AccWork(p) + CalculateWork(r.hash)
    /\ (last.op \in IngestOps /\ last.parentStored /\ ~ last.workMatches)
         => IsError(last.err) /\ "blocks" \notin last.stored

C4_Witness ==
    /\ last.op \in IngestOps
    /\ last.parentStored
    /\ ~ last.workMatches
    /\ last.err = "Parent total work is incorrect."
    /\ \E r \in Rows : r.height = 1 /\ AccWork(r) > CalculateWork(r.hash)

\* C5: every stored block satisfies the proof of work against the
\* difficulty stored in the epoch row its epoch id refers to.
C5_StoredBlocksSatisfyPOW ==
    \A r \in Rows :
       \E e \in epochs :
          /\ e.id = r.epoch
          /\ VerifyPOW(r.hash, SetBytes(e.difficulty))

\* C6: after every successful ingestion of a header, HeadersTip is the
\* stored block of greatest accumulated work.
C6_HeadersTipHeaviest ==
    (last.op \in IngestOps /\ last.err = NoError)
      => /\ \E r \in Rows : BlockFromRow(r) = HeadersTip
         /\ HeadersTip.AccumulatedWork = MaxAccWork

\* C7: IngestBlock invokes OnNewFullTip at most once, and exactly when it
\* committed its block, a callback is registered and the heaviest stored
\* block is not the FullTip of before the call; the invocation sees the
\* committed store and the updated FullTip and receives (new FullTip,
\* FullTip before the call).
C7_OnNewFullTip ==
    [][ last'.op = "IngestBlock"
          => /\ Len(last'.calls) <= 1
             /\ (Len(last'.calls) = 1
                   <=> /\ last'.err = NoError
                       /\ Len(blocks') = Len(blocks) + 1
                       /\ OnNewFullTip
                       /\ GetLatestTip(blocks').Hash # FullTip.Hash)
             /\ Len(last'.calls) = 1
                   => /\ last'.calls[1].tip = FullTip'
                      /\ last'.calls[1].prevTip = FullTip
                      /\ last'.calls[1].dagFullTip = FullTip'
                      /\ last'.calls[1].rows = Len(blocks')
                      /\ FullTip' = GetLatestTip(blocks') ]_vars

C7_Witness ==
    /\ last.op = "IngestBlock"
    /\ Len(last.calls) = 1
    /\ last.calls[1].prevTip.Hash # GenesisHash
    /\ last.calls[1].tip.ParentHash # last.calls[1].prevTip.Hash
    /\ last.calls[1].tip.AccumulatedWork > last.calls[1].prevTip.AccumulatedWork

\* ------------------------------------------------------------------------
\* Properties of the state machine (checked under SpecSM).
\* ------------------------------------------------------------------------
Called == sm.op \in {"Transition", "Apply"}
From == sm.input.RawTransaction.FromPubkey
To == sm.input.RawTransaction.ToPubkey
Miner == sm.input.MinerPubkey
Amount == sm.input.RawTransaction.Amount
Fee == sm.input.RawTransaction.Fee

\* A version 1 transfer between three different accounts.
TransferOfDistinctKeys ==
    /\ Called
    /\ ~ sm.input.IsCoinbase
    /\ sm.input.RawTransaction.Version = 1
    /\ From # To /\ From # Miner /\ To # Miner

\* None of the three checked additions exceeds uint64.
NoOverflow ==
    /\ sm.pre[To] + Amount <= U64Max
    /\ sm.pre[Miner] + Fee <= U64Max
    /\ Amount + Fee <= U64Max

\* The transfer succeeded, emitted the leaves of from, to and miner, and
\* once applied moved amount from from to to and credited fee to miner.
TransferDone ==
    /\ sm.err = NoError
    /\ Len(sm.leaves) = 3
    /\ { sm.leaves[i].PubKey : i \in 1 .. 3 } = {From, To, Miner}
    /\ sm.op = "Apply"
         => state = [k \in Keys |->
                       IF k = From THEN sm.pre[k] - Amount
                       ELSE IF k = To THEN sm.pre[k] + Amount
                       ELSE IF k = Miner THEN sm.pre[k] + Fee
                       ELSE sm.pre[k]]

\* C8 as stated: a transfer whose sender holds less than amount + fee
\* returns ErrInsufficientBalance; otherwise, with no overflow, it succeeds
\* with the three balance changes.
C8_TransferAsStated ==
    TransferOfDistinctKeys
      => /\ sm.pre[From] < Amount + Fee => sm.err = ErrInsufficientBalance
         /\ (sm.pre[From] >= Amount + Fee /\ NoOverflow) => TransferDone

\* C8, amended: with no overflow in to + amount, miner + fee and
\* amount + fee, a transfer whose sender holds less than amount + fee
\* returns ErrInsufficientBalance, and any other succeeds with the three
\* balance changes.
C8_Transfer ==
    (TransferOfDistinctKeys /\ NoOverflow)
      => /\ sm.pre[From] < Amount + Fee => sm.err = ErrInsufficientBalance
         /\ sm.pre[From] >= Amount + Fee => TransferDone

C8_Witness ==
    /\ TransferOfDistinctKeys
    /\ NoOverflow
    /\ sm.op = "Apply"
    /\ Amount > 0
    /\ Fee > 0
    /\ state[From] = sm.pre[From] - Amount
    /\ \E k \in Keys : k \notin {From, To, Miner} /\ state[k] > 0

\* C9: Transition never changes the state map; when it returns an error
\* it returns no leaves; a transfer of 10 to an account holding
\* U64Max - 5 returns ErrToBalanceOverflow.
C9_TransitionLeavesState ==
    sm.op = "Transition"
      => /\ state = sm.pre
         /\ sm.err # NoError
              => /\ sm.leaves = <<>>
                 /\ sm.err \in {ErrUnsupportedVersion, ErrToBalanceOverflow,
                                ErrMinerBalanceOverflow, ErrAmountPlusFeeOverflow,
                                ErrInsufficientBalance}
         /\ (/\ sm.input.RawTransaction.Version = 1
             /\ sm.pre[To] = U64Max - 5
             /\ Amount = 10)
              => sm.err = ErrToBalanceOverflow

C9_Witness ==
    /\ sm.op = "Transition"
    /\ ~ sm.input.IsCoinbase
    /\ sm.pre[To] = U64Max - 5
    /\ Amount = 10
    /\ sm.err = ErrToBalanceOverflow
    /\ state = sm.pre

\* The balances a successful transition computes, over the integers.
ExactLeaves ==
    IF sm.input.IsCoinbase
    THEN << sm.pre[To] + Amount >>
    ELSE << sm.pre[From] - Amount, sm.pre[To] + Amount, sm.pre[Miner] + Fee >>

\* C10: every balance of a successful transition is the exact integer
\* result and a uint64; the sender's balance does not underflow and
\* amount + fee is compared only when it did not overflow.
C10_NoWrap ==
    /\ (Called /\ sm.err = NoError)
         => /\ Len(sm.leaves) = Len(ExactLeaves)
            /\ \A i \in 1 .. Len(sm.leaves) :
                  /\ sm.leaves[i].Balance = ExactLeaves[i]
                  /\ ExactLeaves[i] \in 0 .. U64Max
            /\ ~ sm.input.IsCoinbase
                 => Amount + Fee <= U64Max /\ sm.pre[From] >= Amount + Fee
            /\ sm.op = "Apply"
                 => \A k \in Keys :
                       /\ state[k] \in 0 .. U64Max
                       /\ \/ state[k] = sm.pre[k]
                          \/ \E i \in 1 .. Len(sm.leaves) :
                                sm.leaves[i].PubKey = k /\ state[k] = ExactLeaves[i]
    /\ (Called /\ sm.err = ErrInsufficientBalance) => Amount + Fee <= U64Max

C10_Witness ==
    /\ sm.op = "Apply"
    /\ ~ sm.input.IsCoinbase
    /\ Amount > 0
    /\ sm.pre[To] + Amount = U64Max
    /\ state[To] = U64Max
    /\ state[From] = sm.pre[From] - Amount

\* C11: a version 1 coinbase whose to-balance does not overflow emits the
\* single leaf (to, state[to] + amount), whatever the from key, the fee and
\* the miner key are, and after Apply only state[to] has changed, by
\* amount; a coinbase of another version is rejected.
C11_Coinbase ==
    (Called /\ sm.input.IsCoinbase)
      => /\ sm.input.RawTransaction.Version # 1
              => sm.err = ErrUnsupportedVersion /\ sm.leaves = <<>>
         /\ (sm.input.RawTransaction.Version = 1 /\ sm.pre[To] + Amount <= U64Max)
              => /\ sm.err = NoError
                 /\ sm.leaves = << [PubKey |-> To, Balance |-> sm.pre[To] + Amount] >>
                 /\ sm.op = "Apply"
                      => state = [sm.pre EXCEPT ![To] = sm.pre[To] + Amount]

C11_Witness ==
    /\ sm.op = "Apply"
    /\ sm.input.IsCoinbase
    /\ Amount > 0 /\ Fee > 0
    /\ From # To /\ Miner # To /\ Miner # From
    /\ sm.pre[From] # sm.pre[To]
    /\ state[To] = sm.pre[To] + Amount
    /\ state[Miner] = sm.pre[Miner]

\* C12: after a successful transfer and the Apply of its leaves the miner
\* holds exactly fee more than before, also when the miner key is the from
\* key or the to key.
C12_MinerFee ==
    (sm.op = "Apply" /\ ~ sm.input.IsCoinbase)
      => state[Miner] = sm.pre[Miner] + Fee

C12_Witness ==
    /\ sm.op = "Apply"
    /\ ~ sm.input.IsCoinbase
    /\ Miner = From
    /\ To # From
    /\ Amount > 0 /\ Fee > 0
    /\ state[Miner] = sm.pre[Miner] + Fee

\* ------------------------------------------------------------------------
\* Properties of bodies, replay and epochs.
\* ------------------------------------------------------------------------
TxRows(h) == { tb \in transactions_blocks : tb.block_hash = h }

\* The transactions a block was ingested with, in txindex order.
IngestedBody(h) ==
    [i \in 1 .. Cardinality(TxRows(h)) |->
       CHOOSE tx \in {Tx1} :
          \E tb \in TxRows(h) : tb.txindex = i - 1 /\ tb.transaction_hash = TxHash(tx)]

\* The left fold of the claim: block by block, each block's transactions in
\* txindex order.
RECURSIVE ExpectedReplay(_, _)
ExpectedReplay(st, list) ==
    IF Len(list) = 0 THEN [state |-> st, err |-> NoError]
    ELSE LET block == ReplayTransactions(st, IngestedBody(Head(list)), 1)
         IN  IF block.err # NoError THEN block
             ELSE ExpectedReplay(block.state, Tail(list))

\* C13: RebuildState returns the balances of the left fold over the blocks
\* of the list and over each block's transactions in txindex order (the
\* first as coinbase, naming the miner for the others), and fails only
\* when a transition of the fold fails.
C13_RebuildStateFolds ==
    sm.op = "RebuildState"
      => /\ sm.err = NoError <=> ExpectedReplay(sm.pre, sm.list).err = NoError
         /\ ExpectedReplay(sm.pre, sm.list).err = NoError
              => state = ExpectedReplay(sm.pre, sm.list).state

\* C14: IngestBlockBody stores rows only for a stored header whose
\* num_transactions is the length of the body, whose merkle root is that of
\* the body and whose transactions all carry a valid signature; every block
\* with rows in transactions_blocks has num_transactions of them.
C14_BodyMatchesHeader ==
    /\ \A r \in Rows :
         TxRows(r.hash) # {} => Cardinality(TxRows(r.hash)) = r.num_transactions
    /\ (last.op = "IngestBlockBody" /\ last.stored # {})
         => \E r \in Rows :
               /\ r.hash = last.hash
               /\ r.num_transactions = Len(last.body)
               /\ r.transactions_merkle_root = Root(last.body)
               /\ \A i \in 1 .. Len(last.body) :
                     VerifySignature(last.body[i].FromPubkey, last.body[i].Sig,
                                     Envelope(last.body[i]))

\* C15: after a successful IngestBlockBody of the block that is then the
\* heaviest stored block, FullTip is that block, and a registered callback
\* has been invoked once with (FullTip, FullTip before the call) when the
\* tip hash changed.
C15_BodyUpdatesFullTip ==
    (/\ last.op = "IngestBlockBody"
     /\ last.err = NoError
     /\ GetLatestTip(blocks).Hash = last.hash)
      => /\ FullTip.Hash = last.hash
         /\ (OnNewFullTip /\ last.prevTip.Hash # last.hash)
              => /\ Len(last.calls) = 1
                 /\ last.calls[1].tip = FullTip
                 /\ last.calls[1].prevTip = last.prevTip

\* C16: from every store state and for every raw block, IngestHeader
\* followed by IngestBlockBody of its transactions succeeds iff IngestBlock
\* succeeds, and then both leave the same four tables and the same FullTip.
C16_TwoStepEqualsIngestBlock ==
    \A parent \in ParentHashes :
    \A ptw \in ParentTotalWorks(parent), ts \in 1 .. MaxTimestamp,
       nonce \in 0 .. MaxNonce, body \in Bodies :
       LET raw == RawBlock(parent, ptw, ts, nonce, body)
           one == IngestBlockOp(raw, TRUE)
           hdr == IngestHeaderOp(raw)
           two == IF hdr.err # NoError THEN hdr
                  ELSE IngestBlockBodyOp(hdr.blocks, hdr.epochs, hdr.transactions,
                                         hdr.transactions_blocks, hdr.FullTip,
                                         Hash(raw), raw.Transactions, TRUE)
       IN  /\ one.err = NoError <=> two.err = NoError
           /\ one.err = NoError
                => /\ one.blocks = two.blocks
                   /\ one.epochs = two.epochs
                   /\ one.transactions = two.transactions
                   /\ one.transactions_blocks = two.transactions_blocks
                   /\ one.FullTip = two.FullTip

\* C17: a stored non-genesis block at a height that is a multiple of
\* EpochLengthBlocks refers to the epoch row that starts at it, any other
\* has the epoch of its parent, and every epoch row is the epoch of the
\* stored block it starts at.
C17_EpochRows ==
    /\ \A r \in Rows :
         r.hash # GenesisHash
           => IF r.height % consensus.EpochLengthBlocks = 0
              THEN \E e \in epochs :
                      /\ e.id = r.epoch
                      /\ e.start_block_hash = r.hash
                      /\ e.start_height = r.height
              ELSE \A p \in Rows : p.hash = r.parent_hash => r.epoch = p.epoch
    /\ \A e \in epochs :
          \E r \in Rows : r.hash = e.start_block_hash /\ r.epoch = e.id

\* C18: the epoch row created with a stored boundary block b has the
\* timestamp and height of b and the difficulty of the retarget formula
\* applied to the epoch row of b's parent.
C18_Retarget ==
    \A e \in epochs, b \in Rows, p \in Rows, pe \in epochs :
       (/\ e.start_height # 0
        /\ b.hash = e.start_block_hash /\ b.epoch = e.id
        /\ p.hash = b.parent_hash /\ pe.id = p.epoch)
         => /\ e.start_time = b.timestamp
            /\ e.start_height = b.height
            /\ b.height % consensus.EpochLengthBlocks = 0
            /\ SetBytes(e.difficulty) =
                  (SetBytes(pe.difficulty) * Max({b.timestamp - pe.start_time, 1}))
                     \div consensus.TargetEpochLengthMillis

\* The store and the tips of a DAG opened on an empty store.
GenesisOnly ==
    /\ Len(blocks) = 1
    /\ blocks[1].hash = GenesisHash
    /\ blocks[1].height = 0
    /\ blocks[1].parent_hash = 0
    /\ SetBytes(blocks[1].parent_total_work) = 0
    /\ AccWork(blocks[1]) = CalculateWork(GenesisHash)
    /\ Cardinality(epochs) = 1
    /\ \A e \in epochs :
          /\ e.id = blocks[1].epoch
          /\ e.start_height = 0
          /\ SetBytes(e.difficulty) = consensus.GenesisDifficulty
    /\ HeadersTip = BlockFromRow(blocks[1])
    /\ FullTip = BlockFromRow(blocks[1])
    /\ transactions = {} /\ transactions_blocks = {}

\* C19: opening a DAG on an empty store leaves the genesis block and its
\* epoch as the only rows, with both tips at genesis; opening it again adds
\* no row to any store, and on the store of the first opening leaves
\* everything as it was.
C19_OpenOnce ==
    /\ last.op = "NewBlockDAGFromDB" => GenesisOnly
    /\ last.op = "ReopenDAG"
         => /\ last.err = NoError
            /\ last.stored = {}
            /\ Len(blocks) = 1 => GenesisOnly

C19_Witness ==
    /\ last.op = "ReopenDAG"
    /\ GenesisOnly

\* C20: after IngestBlock accepted a block with k >= 1 transactions,
\* GetBlockTransactions of its hash returns those k transactions, position
\* i holding the one ingested at txindex i with the same fields.
C20_BodyRoundTrip ==
    (/\ last.op = "IngestBlock"
     /\ last.err = NoError
     /\ blocks[Len(blocks)].num_transactions >= 1)
      => LET h == blocks[Len(blocks)].hash
             got == GetBlockTransactions(transactions, transactions_blocks, h)
         IN  /\ got.err = NoError
             /\ Len(got.txs) = blocks[Len(blocks)].num_transactions
             /\ \A i \in 1 .. Len(got.txs) :
                   /\ got.txs[i].TxIndex = i - 1
                   /\ ToRawTransaction(got.txs[i]) = IngestedBody(h)[i]

\* ------------------------------------------------------------------------
\* Properties of shared transactions, chains, duplicates and tips.
\* ------------------------------------------------------------------------
\* The blocks whose transactions_blocks rows name a transaction that another
\* block names too.
SharingBlocks ==
    { tb.block_hash : tb \in
        { x \in transactions_blocks :
            \E y \in transactions_blocks :
               y.transaction_hash = x.transaction_hash /\ y.block_hash # x.block_hash } }

\* A transaction shared by two stored blocks has one row in transactions and
\* one transactions_blocks row per block and position.
SharedTransactionStoredOnce ==
    \A h \in SharingBlocks :
       /\ HasBlock(blocks, h)
       /\ \A tb \in TxRows(h) :
             Cardinality({ t \in transactions : t.hash = tb.transaction_hash }) = 1
       /\ Cardinality(TxRows(h)) = (CHOOSE r \in Rows : r.hash = h).num_transactions

\* C21: when two stored blocks contain the same transaction, the
\* transactions table holds one row for its hash, each block has its
\* transactions_blocks rows, and GetBlockTransactions of each of the two
\* blocks returns that block's ordered list.
C21_SharedTransaction ==
    /\ SharedTransactionStoredOnce
    /\ \A h \in SharingBlocks :
          LET got == GetBlockTransactions(transactions, transactions_blocks, h)
          IN  /\ got.err = NoError
              /\ Len(got.txs) = Cardinality(TxRows(h))
              /\ \A i \in 1 .. Len(got.txs) :
                    ToRawTransaction(got.txs[i]) = IngestedBody(h)[i]

\* The list is a parent-first path ending at s, without repeats.
IsAncestorPath(list, s) ==
    /\ Len(list) >= 1 => list[Len(list)] = s
    /\ \A i \in 1 .. (Len(list) - 1) :
          \E r \in Rows : r.hash = list[i + 1] /\ r.parent_hash = list[i]
    /\ \A i, j \in 1 .. Len(list) : i # j => list[i] # list[j]

\* C22: for every stored block s and every depthFromTip d,
\* GetLongestChainHashList(s, d) returns without error the ancestor path of
\* s, oldest first, ending at s, without repeats, of exactly
\* min(d, height(s) + 1) hashes.
C22_LongestChainHashList ==
    \A r \in Rows : \A d \in 0 .. U64Max :
       LET got == GetLongestChainHashList(blocks, r.hash, d)
       IN  /\ got.err = NoError
           /\ IsAncestorPath(got.list, r.hash)
           /\ Len(got.list) = Min({d, r.height + 1})

\* The raw blocks handed to IngestBlock in the current state.
RawBlocks ==
    UNION { { RawBlock(parent, ptw, ts, nonce, body) :
                ptw \in ParentTotalWorks(parent), ts \in 1 .. MaxTimestamp,
                nonce \in 0 .. MaxNonce, body \in Bodies } : parent \in ParentHashes }

\* The blocks stored with their body, by IngestBlock.
FullRows == { r \in Rows : r.hash # GenesisHash /\ r.size_bytes # 0 }

\* C23: from every store state, IngestBlock of a block whose merkle root is
\* not that of its transactions returns an error and leaves the four tables
\* as they are, whatever the height of the block; every block stored by
\* IngestBlock has the merkle root of its stored transactions.
C23_MerkleRoot ==
    /\ \A raw \in RawBlocks : \A verifyTx \in BOOLEAN :
          raw.TransactionsMerkleRoot # Root(raw.Transactions)
            => LET out == IngestBlockOp(raw, verifyTx)
               IN  /\ IsError(out.err)
                   /\ out.blocks = blocks
                   /\ out.epochs = epochs
                   /\ out.transactions = transactions
                   /\ out.transactions_blocks = transactions_blocks
    /\ \A r \in FullRows :
          /\ Cardinality(TxRows(r.hash)) = r.num_transactions
          /\ r.transactions_merkle_root = Root(IngestedBody(r.hash))

C23_Witness ==
    /\ last.op = "IngestBlock"
    /\ last.err = "Merkle root does not match computed merkle root."
    /\ last.stored = {}
    /\ \E r \in FullRows :
          /\ r.height = consensus.EpochLengthBlocks - 1
          /\ r.num_transactions = 1
          /\ r.transactions_merkle_root = Root(<<Tx1>>)

\* The raw blocks with the header of the stored row r: r ingested again.
DuplicatesOf(r) ==
    { RawBlock(r.parent_hash, r.parent_total_work, r.timestamp, r.nonce, body) :
        body \in { b \in Bodies \cup Headers :
                     /\ b.NumTransactions = r.num_transactions
                     /\ b.TransactionsMerkleRoot = r.transactions_merkle_root } }

Unchanged(out) ==
    /\ IsError(out.err)
    /\ out.blocks = blocks
    /\ out.epochs = epochs
    /\ out.transactions = transactions
    /\ out.transactions_blocks = transactions_blocks
    /\ out.FullTip = FullTip
    /\ out.calls = <<>>

\* Ingesting a stored block again, from the current state.
DuplicatesRejected ==
    \A r \in Rows : r.hash # GenesisHash =>
       \A raw \in DuplicatesOf(r) :
          /\ Hash(raw) = r.hash
          /\ Unchanged(IngestHeaderOp(raw))
          /\ \A verifyTx \in BOOLEAN : Unchanged(IngestBlockOp(raw, verifyTx))

\* No step removes or changes a stored block, epoch or transaction row.
AppendOnly ==
    /\ Len(blocks') >= Len(blocks)
    /\ SubSeq(blocks', 1, Len(blocks)) = blocks
    /\ epochs \subseteq epochs'
    /\ transactions \subseteq transactions'
    /\ (last'.op \in IngestOps /\ IsError(last'.err)) => HeadersTip' = HeadersTip

TiesWithHeaviest ==
    /\ last'.op \in IngestOps
    /\ last'.err = NoError
    /\ Len(blocks') = Len(blocks) + 1
    /\ AccWork(blocks'[Len(blocks')]) = MaxAccWork

\* C25: when a successfully ingested block has the accumulated work of the
\* heaviest block stored before, GetLatestTip still returns the block it
\* returned before, FullTip is unchanged and OnNewFullTip is not invoked.
C25_TieKeepsTip ==
    [][ TiesWithHeaviest
          => /\ GetLatestTip(blocks') = GetLatestTip(blocks)
             /\ FullTip' = FullTip
             /\ last'.calls = <<>> ]_vars

\* The rows of transactions_blocks hold the body the header of r announces.
BodyStored(r) ==
    /\ Cardinality(TxRows(r.hash)) = r.num_transactions
    /\ r.transactions_merkle_root = Root(IngestedBody(r.hash))

\* C26: FullTip never names a block stored by IngestHeader (size_bytes 0)
\* whose body is not stored.  A header announcing no transaction counts as
\* complete from the start, the reading most favourable to the code.
C26_FullTipIsFull ==
    \A r \in Rows :
       (r.hash = FullTip.Hash /\ r.size_bytes = 0) => BodyStored(r)

AllReturned == \A p \in Callers : inflight[p].pc = "returned" /\ inflight[p].err = NoError

\* C27: once the two interleaved IngestBlock calls have both returned nil,
\* FullTip is a stored block of greatest accumulated work, as after the two
\* calls in either order.
C27_ConcurrentIngest ==
    AllReturned
      => /\ \E r \in Rows : BlockFromRow(r) = FullTip
         /\ FullTip.AccumulatedWork = MaxAccWork

RECURSIVE SumOver(_, _)
SumOver(st, keys) ==
    IF keys = {} THEN 0
    ELSE LET k == CHOOSE k \in keys : TRUE
         IN  st[k] + SumOver(st, keys \ {k})

\* The sum of all account balances.
TotalSupply(st) == SumOver(st, Keys)

\* C28: after a successful transfer and the Apply of its leaves the sum of
\* all balances is fee more than before, whichever of the from, to and
\* miner keys coincide; after a successful coinbase it is amount more.
C28_SupplyGrowsByFee ==
    sm.op = "Apply"
      => IF sm.input.IsCoinbase
         THEN TotalSupply(state) = TotalSupply(sm.pre) + Amount
         ELSE TotalSupply(state) = TotalSupply(sm.pre) + Fee

====
